---- MODULE Spec2Model ----
(***************************************************************************)
(* A model of xkcd-passwd.go: read_defaults, random_separator,             *)
(* random_padding, random_inner_word, random_word, random_digits,          *)
(* generate_output and the tail of main (from the read_defaults call on).  *)
(*                                                                         *)
(* A Go string is a sequence of bytes (0..255) holding UTF-8.  len(s) is   *)
(* Len of that sequence, s[a:b] slices bytes, and "for i, r := range s"    *)
(* decodes runes with i the BYTE offset of each rune.  Runes are limited   *)
(* to U+0000..U+07FF (one or two bytes), which holds ASCII and Latin-1.    *)
(***************************************************************************)
EXTENDS Integers, Sequences, FiniteSets, TLC

VARIABLES
    jsonData,       \* main: the JSON_Defaults record the file decodes to
    dictionary,     \* the package-level word list
    num_passwords,  \* main: the positional argument (default 1)
    pc,             \* position of the process
    defaults,       \* main: the Defaults value read_defaults returned
    err,            \* main: the error read_defaults returned ("" is nil)
    n,              \* main: loop counter i of the password loop
    separator,      \* generate_output: separator
    padding,        \* generate_output: padding
    builder,        \* generate_output: the writes made to builder, in order
    wi,             \* generate_output: loop counter i of the word loop
    word,           \* random_word: word
    result,         \* generate_output: result
    stdout,         \* the lines printed on standard output
    sepDraws        \* number of random_separator calls of this invocation

vars == <<jsonData, dictionary, num_passwords, pc, defaults, err, n, separator,
          padding, builder, wi, word, result, stdout, sepDraws>>

-----------------------------------------------------------------------------
(* Bounds of the model.                                                    *)

MaxNumWords == 2
MaxNumPasswords == 2
MaxPadToLength == 5
MaxPaddingDigits == 1
MaxPaddingCharacters == 1

-----------------------------------------------------------------------------
(* Strings as UTF-8 byte sequences.                                        *)

S_empty      == << >>
S_none       == <<110, 111, 110, 101>>
S_None       == <<78, 111, 110, 101>>
S_alternate  == <<97, 108, 116, 101, 114, 110, 97, 116, 101>>
S_capitalise == <<99, 97, 112, 105, 116, 97, 108, 105, 115, 101>>
S_invert     == <<105, 110, 118, 101, 114, 116>>
S_upper      == <<117, 112, 112, 101, 114>>
S_UPPER      == <<85, 80, 80, 69, 82>>
S_lower      == <<108, 111, 119, 101, 114>>
S_random     == <<114, 97, 110, 100, 111, 109>>
S_Random     == <<82, 97, 110, 100, 111, 109>>
S_fixed      == <<102, 105, 120, 101, 100>>
S_adaptive   == <<97, 100, 97, 112, 116, 105, 118, 101>>
S_Adaptive   == <<65, 100, 97, 112, 116, 105, 118, 101>>
S_separator  == <<115, 101, 112, 97, 114, 97, 116, 111, 114>>
S_bogus      == <<98, 111, 103, 117, 115>>
S_dash       == <<45>>                  \* "-"
S_under      == <<95>>                  \* "_"
S_bang       == <<33>>                  \* "!"
S_hash       == <<35>>                  \* "#"
S_X          == <<88>>                  \* "X"
S_x          == <<120>>                 \* "x"
S_ab         == <<97, 98>>              \* "ab"
S_Ab         == <<65, 98>>              \* "Ab"
S_cde        == <<99, 100, 101>>        \* "cde"
S_f          == <<102>>                 \* "f"
S_eacute     == <<195, 169>>            \* "e-acute", U+00E9, two bytes
S_eacute_ab  == <<195, 169, 97, 98>>    \* e-acute, a, b: 3 runes, 4 bytes
S_eacute_a   == <<195, 169, 97>>        \* e-acute, a: 2 runes, 3 bytes

RuneError == 65533

\* unicode.ToUpper on U+0000..U+00FF (ASCII and Latin-1 letters with an
\* upper-case partner in that range).
ToUpper(r) ==
    IF (r >= 97 /\ r <= 122) \/ (r >= 224 /\ r <= 254 /\ r # 247)
    THEN r - 32 ELSE r

\* unicode.ToLower on U+0000..U+00FF.
ToLower(r) ==
    IF (r >= 65 /\ r <= 90) \/ (r >= 192 /\ r <= 222 /\ r # 215)
    THEN r + 32 ELSE r

\* string(rune): the UTF-8 encoding of one rune.
EncodeRune(r) ==
    IF r < 128 THEN <<r>>
    ELSE IF r < 2048 THEN <<192 + (r \div 64), 128 + (r % 64)>>
    ELSE <<239, 191, 189>>

\* "for i, r := range s": the sequence of [i, r], i the 0-based byte offset
\* at which rune r starts.  p is the 1-based position still to decode.
RECURSIVE RangeFrom(_, _)
RangeFrom(s, p) ==
    IF p > Len(s) THEN << >>
    ELSE IF s[p] < 128
         THEN <<[i |-> p - 1, r |-> s[p]]>> \o RangeFrom(s, p + 1)
    ELSE IF s[p] >= 194 /\ s[p] < 224 /\ p + 1 <= Len(s)
            /\ s[p + 1] >= 128 /\ s[p + 1] < 192
         THEN <<[i |-> p - 1, r |-> (s[p] - 192) * 64 + (s[p + 1] - 128)]>>
              \o RangeFrom(s, p + 2)
    ELSE <<[i |-> p - 1, r |-> RuneError]>> \o RangeFrom(s, p + 1)

Range(s) == RangeFrom(s, 1)

\* string(chars) for chars []rune.
RECURSIVE StringOfRunes(_)
StringOfRunes(rs) ==
    IF rs = << >> THEN << >>
    ELSE EncodeRune(Head(rs)) \o StringOfRunes(Tail(rs))

\* strings.ToLower / strings.ToUpper: every rune mapped.
StringsToLower(s) ==
    StringOfRunes([k \in 1..Len(Range(s)) |-> ToLower(Range(s)[k].r)])

StringsToUpper(s) ==
    StringOfRunes([k \in 1..Len(Range(s)) |-> ToUpper(Range(s)[k].r)])

\* n copies of string s.
RECURSIVE Repeat(_, _)
Repeat(s, k) == IF k <= 0 THEN << >> ELSE s \o Repeat(s, k - 1)

-----------------------------------------------------------------------------
(* The enumerations.                                                       *)

CaseNone       == "CaseNone"
CaseAlternate  == "CaseAlternate"
CaseCapitalise == "CaseCapitalise"
CaseInvert     == "CaseInvert"
CaseUpper      == "CaseUpper"
CaseRandom     == "CaseRandom"
CaseLower      == CaseNone

SeparatorNone      == "SeparatorNone"
SeparatorRandom    == "SeparatorRandom"
SeparatorCharacter == "SeparatorCharacter"

PaddingNone     == "PaddingNone"
PaddingFixed    == "PaddingFixed"
PaddingAdaptive == "PaddingAdaptive"

PaddingRandom    == "PaddingRandom"
PaddingSeparator == "PaddingSeparator"
PaddingSpecified == "PaddingSpecified"

Unknown == "Unknown"    \* the default: branch of a switch that returns an error

\* Defaults{}: the zero value.
ZeroDefaults ==
    [WordDictionary          |-> << >>,
     NumWords                |-> 0,
     WordLengthMin           |-> 0,
     WordLengthMax           |-> 0,
     CaseTransform           |-> CaseNone,
     SeparatorCharacter      |-> SeparatorNone,
     SeparatorAlphabet       |-> << >>,
     PaddingDigitsBefore     |-> 0,
     PaddingDigitsAfter      |-> 0,
     PaddingType             |-> PaddingNone,
     PaddingCharacter        |-> PaddingRandom,
     SymbolAlphabet          |-> << >>,
     PaddingCharactersBefore |-> 0,
     PaddingCharactersAfter  |-> 0,
     PadToLength             |-> 0]

-----------------------------------------------------------------------------
(* read_defaults                                                           *)

\* The switch on the lower-cased case_transform.
CaseTransformOf(s) ==
    CASE s = S_none       -> CaseNone
      [] s = S_alternate  -> CaseAlternate
      [] s = S_capitalise -> CaseCapitalise
      [] s = S_invert     -> CaseInvert
      [] s = S_upper      -> CaseUpper
      [] s = S_lower      -> CaseLower
      [] s = S_random     -> CaseRandom
      [] OTHER            -> Unknown

\* The switch on the lower-cased separator_character.
SeparatorCharacterOf(s) ==
    CASE s = S_none   -> SeparatorNone
      [] s = S_random -> SeparatorRandom
      [] OTHER        -> IF Len(s) > 1 THEN Unknown ELSE SeparatorCharacter

\* An unknown padding_type taken as "none".
PaddingTypeOrNone(s) ==
    CASE s = S_fixed    -> PaddingFixed
      [] s = S_adaptive -> PaddingAdaptive
      [] OTHER          -> PaddingNone

\* The switch on the lower-cased padding_type.
PaddingTypeOf(s) ==
    CASE s = S_none     -> PaddingNone
      [] s = S_fixed    -> PaddingFixed
      [] s = S_adaptive -> PaddingAdaptive
      [] OTHER          -> Unknown

\* The switch on the lower-cased padding_character.
PaddingCharacterOf(s) ==
    CASE s = S_random    -> PaddingRandom
      [] s = S_separator -> PaddingSeparator
      [] OTHER           -> IF Len(s) > 1 THEN Unknown ELSE PaddingSpecified

Failure(msg) == [defaults |-> ZeroDefaults, err |-> msg]

\* read_defaults(jsonData): the pair it returns.
read_defaults(j) ==
    IF ~j.valid THEN Failure("Unmarshal")
    ELSE
    LET ct == StringsToLower(j.case_transform)
        sc == StringsToLower(j.separator_character)
        pt == StringsToLower(j.padding_type)
        pch == StringsToLower(j.padding_character)
    IN  IF CaseTransformOf(ct) = Unknown THEN Failure("Unknown CaseType")
        ELSE IF SeparatorCharacterOf(sc) = Unknown
             THEN Failure("Unknown SeparatorCharacter")
        ELSE IF PaddingTypeOf(pt) = Unknown THEN Failure("Unknown PaddingType")
        ELSE IF PaddingCharacterOf(pch) = Unknown
             THEN Failure("Unknown PaddingCharacter")
        ELSE
        [defaults |->
            [WordDictionary          |-> << >>,
             NumWords                |-> j.num_words,
             WordLengthMin           |-> j.word_length_min,
             WordLengthMax           |-> j.word_length_max,
             CaseTransform           |-> CaseTransformOf(ct),
             SeparatorCharacter      |-> SeparatorCharacterOf(sc),
             SeparatorAlphabet       |->
                 IF SeparatorCharacterOf(sc) = SeparatorCharacter
                 THEN <<sc>> ELSE j.separator_alphabet,
             PaddingDigitsBefore     |-> j.padding_digits_before,
             PaddingDigitsAfter      |-> j.padding_digits_after,
             PaddingType             |-> PaddingTypeOf(pt),
             PaddingCharacter        |-> PaddingCharacterOf(pch),
             SymbolAlphabet          |->
                 IF PaddingCharacterOf(pch) = PaddingSpecified
                 THEN <<pch>> ELSE j.symbol_alphabet,
             PaddingCharactersBefore |-> j.padding_characters_before,
             PaddingCharactersAfter  |-> j.padding_characters_after,
             PadToLength             |-> j.pad_to_length],
         err |-> ""]

-----------------------------------------------------------------------------
(* random_word: the case policies, and random_digits                       *)

\* case CaseLower (= CaseNone).
LowerCase(w) == StringsToLower(w)

\* case CaseAlternate: "if i % 2 == 0", i the range index.
AlternateCase(w) ==
    LET rg == Range(w)
    IN  StringOfRunes([k \in 1..Len(rg) |->
            IF rg[k].i % 2 = 0 THEN ToUpper(rg[k].r) ELSE ToLower(rg[k].r)])

\* Capitalise taken as Upper.
CapitaliseAsUpper(w) == StringsToUpper(w)

\* case CaseCapitalise: "if i == 0".
CapitaliseCase(w) ==
    LET rg == Range(w)
    IN  StringOfRunes([k \in 1..Len(rg) |->
            IF rg[k].i = 0 THEN ToUpper(rg[k].r) ELSE ToLower(rg[k].r)])

\* case CaseInvert: "if i == 0".
InvertCase(w) ==
    LET rg == Range(w)
    IN  StringOfRunes([k \in 1..Len(rg) |->
            IF rg[k].i = 0 THEN ToLower(rg[k].r) ELSE ToUpper(rg[k].r)])

\* case CaseUpper.
UpperCase(w) == StringsToUpper(w)

\* case CaseRandom: coins[k] is the value rand.Int(2) gave for the k-th rune.
RandomCase(w, coins) ==
    LET rg == Range(w)
    IN  StringOfRunes([k \in 1..Len(rg) |->
            IF coins[k] = 0 THEN ToLower(rg[k].r) ELSE ToUpper(rg[k].r)])

\* The switch on defaults.CaseTransform.
ApplyCase(w, ct, coins) ==
    CASE ct = CaseLower      -> LowerCase(w)
      [] ct = CaseAlternate  -> AlternateCase(w)
      [] ct = CaseCapitalise -> CapitaliseCase(w)
      [] ct = CaseInvert     -> InvertCase(w)
      [] ct = CaseUpper      -> UpperCase(w)
      [] ct = CaseRandom     -> RandomCase(w, coins)
      [] OTHER               -> w

\* The coin sequences rand.Int(2) can give for word w (one coin for a policy
\* that draws none).
Coins(w, ct) ==
    IF ct = CaseRandom THEN [1..Len(Range(w)) -> {0, 1}] ELSE {<< >>}

\* The two comparisons joined by "and": no word is drawn again.
RedrawNever(w, d) == Len(w) < d.WordLengthMin /\ Len(w) > d.WordLengthMax

\* The loop condition of random_word: the word is drawn again.
Redraw(w, d) == Len(w) < d.WordLengthMin \/ Len(w) > d.WordLengthMax

\* An integer beyond 32 bits is held as its sign and its decimal digits (most
\* significant first, no leading zero).
MinInt64 ==
    [neg |-> TRUE,
     digits |-> <<9, 2, 2, 3, 3, 7, 2, 0, 3, 6, 8, 5, 4, 7, 7, 5, 8, 0, 8>>]

MaxInt64 ==
    [neg |-> FALSE,
     digits |-> <<9, 2, 2, 3, 3, 7, 2, 0, 3, 6, 8, 5, 4, 7, 7, 5, 8, 0, 7>>]

\* The greatest n for which 10^n is an int64 (10^18 < 2^63 < 10^19).
MaxExactPow10 == 18

\* The text %d gives for v >= 0, v a digit sequence.
Decimal(v) == [k \in 1..Len(v) |-> 48 + v[k]]

\* fmt.Sprintf("%0*d", num_digits, v).
Sprintf0(num_digits, v) ==
    Repeat(<<48>>, num_digits - Len(Decimal(v))) \o Decimal(v)

\* int64(math.Pow10(num_digits)), num_digits >= 0: the values the conversion
\* can give.  Up to 10^18 it is exact; beyond, the float is out of the range
\* of int64 and the result depends on the implementation: the least int64
\* (amd64) or the greatest (arm64, saturating).
Pow10(num_digits) ==
    IF num_digits <= MaxExactPow10
    THEN {[neg |-> FALSE, digits |-> <<1>> \o [k \in 1..num_digits |-> 0]]}
    ELSE {MinInt64, MaxInt64}

\* The digits of v - 1, for the digits of v >= 1 (leading zeros kept).
RECURSIVE Borrow(_)
Borrow(ds) ==
    IF ds[Len(ds)] > 0
    THEN [ds EXCEPT ![Len(ds)] = @ - 1]
    ELSE Borrow(SubSeq(ds, 1, Len(ds) - 1)) \o <<9>>

\* A digit sequence without its leading zeros.
RECURSIVE Canonical(_)
Canonical(ds) ==
    IF Len(ds) > 1 /\ ds[1] = 0 THEN Canonical(Tail(ds)) ELSE ds

\* The values of rand.Int(rand.Reader, big.NewInt(m)) the model draws: the
\* least, the greatest and one in between, of 0..m-1.  None for m <= 0:
\* rand.Int panics.
DigitDraws(m) ==
    IF m.neg \/ m.digits = <<0>> THEN {}
    ELSE {<<0>>, Canonical(Borrow(m.digits))}
         \cup (IF Len(m.digits) > 1 \/ m.digits[1] > 7 THEN {<<7>>} ELSE {})

\* The bound of the single draw the model makes where random_digits is not
\* called (the digit count is not positive): the value drawn is not used.
NoDigits == [neg |-> FALSE, digits |-> <<1>>]

\* random_digits(num_digits), v the value drawn.
random_digits(num_digits, v) == Sprintf0(num_digits, v)

-----------------------------------------------------------------------------
(* generate_output                                                         *)

\* One write to builder: val is the text written; kind names the statement
\* that wrote it and raw, for a word, the word random_word accepted before
\* its case policy.
Piece(kind, val, raw) == [kind |-> kind, val |-> val, raw |-> raw]

\* builder.String().
RECURSIVE BuilderString(_)
BuilderString(b) ==
    IF b = << >> THEN << >> ELSE Head(b).val \o BuilderString(Tail(b))

\* A separator written after the last word too.
SeparatorFollowsEveryWord(i, d) == i < d.NumWords

\* "if i < defaults.NumWords - 1": a separator follows word i.
SeparatorFollows(i, d) == i < d.NumWords - 1

\* result[a:b] of Go, 0-based, on bytes.
Slice(s, a, b) == SubSeq(s, a + 1, b)

\* The slice the Adaptive branch takes of a result longer than PadToLength.
Truncated(res, d) == Slice(res, 1, d.PadToLength + 1)

\* The padding symbol as resolved for PaddingFixed and PaddingAdaptive; k is
\* the index random_padding drew.
ResolvedPadding(d, sep, k) ==
    IF d.PaddingType \notin {PaddingFixed, PaddingAdaptive} THEN << >>
    ELSE CASE d.PaddingCharacter = PaddingRandom    -> d.SymbolAlphabet[k]
           [] d.PaddingCharacter = PaddingSeparator -> sep
           [] d.PaddingCharacter = PaddingSpecified -> d.SymbolAlphabet[1]
           [] OTHER                                 -> << >>

\* Whether generate_output calls random_padding.
DrawsPadding(d) ==
    /\ d.PaddingType \in {PaddingFixed, PaddingAdaptive}
    /\ d.PaddingCharacter = PaddingRandom

-----------------------------------------------------------------------------
(* The process: main from the read_defaults call on.                       *)

\* The state once main has read the configuration file and its arguments.
InitWith(J, D, NP) ==
    /\ jsonData \in J
    /\ dictionary \in D
    /\ num_passwords \in NP
    /\ pc = "read_defaults"
    /\ defaults = ZeroDefaults
    /\ err = ""
    /\ n = 0
    /\ separator = << >>
    /\ padding = << >>
    /\ builder = << >>
    /\ wi = 0
    /\ word = << >>
    /\ result = << >>
    /\ stdout = << >>
    /\ sepDraws = 0

\* defaults, err = read_defaults(jsonData); Fatal on an error; then
\* defaults.WordDictionary = dictionary.
ReadDefaults ==
    /\ pc = "read_defaults"
    /\ LET r == read_defaults(jsonData)
       IN  /\ err' = r.err
           /\ IF r.err # ""
              THEN /\ defaults' = r.defaults
                   /\ pc' = "fatal"
              ELSE /\ defaults' = [r.defaults EXCEPT !.WordDictionary = dictionary]
                   /\ pc' = "loop"
    /\ UNCHANGED <<jsonData, dictionary, num_passwords, n, separator, padding,
                   builder, wi, word, result, stdout, sepDraws>>

\* for i := 0; i < num_passwords; i++: enter generate_output or exit 0.
LoopHead ==
    /\ pc = "loop"
    /\ IF n < num_passwords THEN pc' = "gen_separator" ELSE pc' = "exit0"
    /\ separator' = << >>
    /\ padding' = << >>
    /\ builder' = << >>
    /\ wi' = 0
    /\ word' = << >>
    /\ result' = << >>
    /\ sepDraws' = 0
    /\ UNCHANGED <<jsonData, dictionary, num_passwords, defaults, err, n, stdout>>

\* separator = random_separator(defaults).
GenSeparator ==
    /\ pc = "gen_separator"
    /\ IF Len(defaults.SeparatorAlphabet) = 0
       THEN /\ pc' = "panic"
            /\ UNCHANGED separator
       ELSE /\ \E k \in 1..Len(defaults.SeparatorAlphabet) :
                   separator' = defaults.SeparatorAlphabet[k]
            /\ pc' = "gen_padding"
    /\ sepDraws' = sepDraws + 1
    /\ UNCHANGED <<jsonData, dictionary, num_passwords, defaults, err, n,
                   padding, builder, wi, word, result, stdout>>

\* The padding symbol, the fixed padding before and the digits before.
GenPadding ==
    /\ pc = "gen_padding"
    /\ IF DrawsPadding(defaults) /\ Len(defaults.SymbolAlphabet) = 0
       THEN /\ pc' = "panic"
            /\ UNCHANGED <<padding, builder>>
       ELSE \E k \in (IF DrawsPadding(defaults)
                      THEN 1..Len(defaults.SymbolAlphabet) ELSE {1}),
               m \in (IF defaults.PaddingDigitsBefore > 0
                      THEN Pow10(defaults.PaddingDigitsBefore)
                      ELSE {NoDigits}) :
            LET pad == ResolvedPadding(defaults, separator, k)
                fixed == IF defaults.PaddingType = PaddingFixed
                         THEN [j \in 1..defaults.PaddingCharactersBefore |->
                                  Piece("padding", pad, << >>)]
                         ELSE << >>
                digits(v) ==
                    IF defaults.PaddingDigitsBefore > 0
                    THEN <<Piece("digits",
                                 random_digits(defaults.PaddingDigitsBefore, v),
                                 << >>),
                           Piece("separator", separator, << >>)>>
                    ELSE << >>
            IN  /\ padding' = pad
                /\ IF DigitDraws(m) = {}
                   THEN /\ builder' = builder \o fixed
                        /\ pc' = "panic"
                   ELSE \E v \in DigitDraws(m) :
                        /\ builder' = builder \o fixed \o digits(v)
                        /\ pc' = "gen_words"
    /\ wi' = 0
    /\ UNCHANGED <<jsonData, dictionary, num_passwords, defaults, err, n,
                   separator, word, result, stdout, sepDraws>>

\* random_word: one call of random_inner_word and the test of the loop.
RandomInnerWord ==
    /\ pc = "gen_words"
    /\ wi < defaults.NumWords
    /\ IF Len(defaults.WordDictionary) = 0
       THEN /\ pc' = "panic"
            /\ UNCHANGED word
       ELSE \E k \in 1..Len(defaults.WordDictionary) :
            /\ word' = defaults.WordDictionary[k]
            /\ pc' = IF Redraw(defaults.WordDictionary[k], defaults)
                     THEN "gen_words" ELSE "gen_case"
    /\ UNCHANGED <<jsonData, dictionary, num_passwords, defaults, err, n,
                   separator, padding, builder, wi, result, stdout, sepDraws>>

\* random_word: the case policy; the word and its separator are written.
EmitWord ==
    /\ pc = "gen_case"
    /\ \E coins \in Coins(word, defaults.CaseTransform) :
          builder' = builder
              \o <<Piece("word", ApplyCase(word, defaults.CaseTransform, coins), word)>>
              \o (IF SeparatorFollows(wi, defaults)
                  THEN <<Piece("separator", separator, << >>)>> ELSE << >>)
    /\ wi' = wi + 1
    /\ pc' = "gen_words"
    /\ UNCHANGED <<jsonData, dictionary, num_passwords, defaults, err, n,
                   separator, padding, word, result, stdout, sepDraws>>

\* The digits after, the fixed padding after, result = builder.String() and
\* the Adaptive adjustment.
Finish ==
    /\ pc = "gen_words"
    /\ wi >= defaults.NumWords
    /\ \E m \in (IF defaults.PaddingDigitsAfter > 0
                 THEN Pow10(defaults.PaddingDigitsAfter)
                 ELSE {NoDigits}) :
       IF DigitDraws(m) = {}
       THEN /\ builder' = builder \o <<Piece("separator", separator, << >>)>>
            /\ pc' = "panic"
            /\ UNCHANGED result
       ELSE \E v \in DigitDraws(m) :
       LET digits == IF defaults.PaddingDigitsAfter > 0
                     THEN <<Piece("separator", separator, << >>),
                            Piece("digits",
                                  random_digits(defaults.PaddingDigitsAfter, v),
                                  << >>)>>
                     ELSE << >>
           fixed == IF defaults.PaddingType = PaddingFixed
                    THEN [j \in 1..defaults.PaddingCharactersAfter |->
                             Piece("padding", padding, << >>)]
                    ELSE << >>
           built == builder \o digits \o fixed
           res == BuilderString(built)
           more == [j \in 1..(defaults.PadToLength - Len(res)) |->
                       Piece("adaptive", padding, << >>)]
       IN  IF defaults.PaddingType # PaddingAdaptive
           THEN /\ builder' = built
                /\ result' = res
                /\ pc' = "gen_print"
           ELSE IF Len(res) > defaults.PadToLength
           THEN IF defaults.PadToLength + 1 < 1
                THEN /\ builder' = built
                     /\ result' = res
                     /\ pc' = "panic"
                ELSE /\ builder' = built
                     /\ result' = Truncated(res, defaults)
                     /\ pc' = "gen_print"
           ELSE IF Len(res) < defaults.PadToLength
           THEN /\ builder' = built \o more
                /\ result' = BuilderString(built \o more)
                /\ pc' = "gen_print"
           ELSE /\ builder' = built
                /\ result' = res
                /\ pc' = "gen_print"
    /\ UNCHANGED <<jsonData, dictionary, num_passwords, defaults, err, n,
                   separator, padding, wi, word, stdout, sepDraws>>

\* fmt.Printf("%v\n", result); return; i++.
PrintResult ==
    /\ pc = "gen_print"
    /\ stdout' = Append(stdout, result)
    /\ n' = n + 1
    /\ pc' = "loop"
    /\ UNCHANGED <<jsonData, dictionary, num_passwords, defaults, err,
                   separator, padding, builder, wi, word, result, sepDraws>>

Next ==
    \/ ReadDefaults
    \/ LoopHead
    \/ GenSeparator
    \/ GenPadding
    \/ RandomInnerWord
    \/ EmitWord
    \/ Finish
    \/ PrintResult

-----------------------------------------------------------------------------
(* The inputs.                                                             *)

\* A JSON_Defaults record that json.Unmarshal decoded.
Json(ct, sc, sa, pt, pch, sy, nw, lo, hi, db, da, cb, ca, ptl) ==
    [valid                     |-> TRUE,
     num_words                 |-> nw,
     word_length_min           |-> lo,
     word_length_max           |-> hi,
     case_transform            |-> ct,
     separator_character       |-> sc,
     separator_alphabet        |-> sa,
     padding_digits_before     |-> db,
     padding_digits_after      |-> da,
     padding_type              |-> pt,
     padding_character         |-> pch,
     symbol_alphabet           |-> sy,
     padding_characters_before |-> cb,
     padding_characters_after  |-> ca,
     pad_to_length             |-> ptl]

\* File contents json.Unmarshal rejects.
BadJson ==
    [Json(S_empty, S_empty, << >>, S_empty, S_empty, << >>, 0, 0, 0, 0, 0, 0, 0, 0)
        EXCEPT !.valid = FALSE]

\* Composition: every separator mode, padding type and padding character,
\* word counts, digit groups, fixed padding counts and target lengths, over
\* an ASCII dictionary.  A field the configuration does not read (a count
\* of another padding type, the alphabet a literal separator replaces) has
\* one value only.
ComposeJson ==
    { Json(S_none, sc, sa, pt, pch, <<S_bang, S_hash>>, nw, 2, 3, db, da, cb, ca, ptl) :
        sc \in {S_none, S_random, S_dash},
        sa \in {<< >>, <<S_dash, S_under>>},
        pt \in {S_none, S_fixed, S_adaptive},
        pch \in {S_random, S_separator, S_bang, S_empty},
        nw \in 0..MaxNumWords,
        db \in 0..MaxPaddingDigits,
        da \in 0..MaxPaddingDigits,
        cb \in 0..MaxPaddingCharacters,
        ca \in 0..MaxPaddingCharacters,
        ptl \in 0..MaxPadToLength }

ComposeInputs ==
    { j \in ComposeJson :
        /\ j.padding_type # S_fixed =>
              j.padding_characters_before = 0 /\ j.padding_characters_after = 0
        /\ j.padding_type # S_adaptive => j.pad_to_length = 0
        /\ j.padding_type = S_none => j.padding_character = S_random
        /\ j.separator_character = S_dash => j.separator_alphabet = << >> }

Init == InitWith(ComposeInputs, {<<S_ab, S_cde, S_f>>}, {1})

Spec == Init /\ [][Next]_vars

\* Parsing: recognised tokens in lower and mixed case, unknown tokens, the
\* empty string, literal characters of one byte and of two, and two-character
\* strings, for every requested number of passwords.
ParseInputs ==
    { Json(ct, sc, <<S_dash, S_under>>, pt, pch, <<S_bang, S_hash>>,
           1, 2, 3, 0, 0, 1, 0, 4) :
        ct \in {S_none, S_UPPER, S_capitalise, S_bogus, S_empty},
        sc \in {S_none, S_None, S_random, S_dash, S_X, S_empty, S_ab, S_eacute},
        pt \in {S_none, S_fixed, S_Adaptive, S_bogus},
        pch \in {S_random, S_Random, S_separator, S_bang, S_X, S_empty, S_ab} }
    \cup {BadJson}

InitParse == InitWith(ParseInputs, {<<S_ab, S_cde, S_f>>}, 0..MaxNumPasswords)

SpecParse == InitParse /\ [][Next]_vars

\* Word selection and case: every case policy and several length bounds over
\* a dictionary with upper-case letters and two-byte characters.
S_aBc == <<97, 66, 99>>                 \* "aBc"

CaseDictionary == <<S_ab, S_aBc, S_eacute_a, S_eacute_ab, S_f>>

CaseInputs ==
    { Json(ct, S_dash, << >>, S_none, S_random, << >>, nw, b[1], b[2], 0, 0, 0, 0, 0) :
        ct \in {S_none, S_alternate, S_capitalise, S_invert, S_upper, S_lower,
                S_random},
        nw \in 1..MaxNumWords,
        b \in {<<2, 3>>, <<3, 3>>, <<1, 4>>} }

InitCase == InitWith(CaseInputs, {CaseDictionary}, {1})

SpecCase == InitCase /\ [][Next]_vars

-----------------------------------------------------------------------------
(* Notions the properties are stated in.                                   *)

\* The characters (code points) of a string.
Chars(s) == [k \in 1..Len(Range(s)) |-> Range(s)[k].r]

\* The last k characters of a string.
LastChars(s, k) == SubSeq(Chars(s), Len(Chars(s)) - k + 1, Len(Chars(s)))

IsAdaptiveWrite(p) == p.kind = "adaptive"
IsCoreWrite(p) == p.kind \in {"digits", "word", "separator"}
IsSeparatorWrite(p) == p.kind = "separator"
IsWordWrite(p) == p.kind = "word"

\* The string steps 1-7 built: every write but the Adaptive ones.
PrePadding == BuilderString(SelectSeq(builder, LAMBDA p : ~IsAdaptiveWrite(p)))

\* generate_output has computed its result and not yet returned.
Composed == pc = "gen_print"

\* The separator has been selected in this invocation.
SeparatorSelected == pc \in {"gen_padding", "gen_words", "gen_case", "gen_print"}

-----------------------------------------------------------------------------
(* C1. Adaptive, built string longer than padToLength: the result is the  *)
(* last padToLength characters of the built string.                        *)
C1_AdaptiveKeepsTail ==
    (/\ Composed
     /\ defaults.PaddingType = PaddingAdaptive
     /\ Len(Chars(PrePadding)) > defaults.PadToLength)
    => Chars(result) = LastChars(PrePadding, defaults.PadToLength)

(* C2. Adaptive, built string not longer than padToLength: the result is   *)
(* the built string followed by padToLength - len copies of the padding    *)
(* symbol, and its length is padToLength.                                  *)
C2_AdaptiveExtends ==
    (/\ Composed
     /\ defaults.PaddingType = PaddingAdaptive
     /\ Len(Chars(PrePadding)) <= defaults.PadToLength)
    => /\ result = PrePadding
                     \o Repeat(padding, defaults.PadToLength - Len(Chars(PrePadding)))
       /\ Len(Chars(result)) = defaults.PadToLength

(* C3. With separator mode None the separator is the empty string, and so  *)
(* is every separator written.                                             *)
C3_NoneIsEmpty ==
    (SeparatorSelected /\ defaults.SeparatorCharacter = SeparatorNone)
    => /\ separator = << >>
       /\ \A k \in 1..Len(builder) :
             IsSeparatorWrite(builder[k]) => builder[k].val = << >>

\* The writes of steps 4-6 that configuration d calls for, by kind.
RECURSIVE WordSlots(_)
WordSlots(k) ==
    IF k <= 0 THEN << >>
    ELSE IF k = 1 THEN <<"word">>
    ELSE <<"word", "separator">> \o WordSlots(k - 1)

ExpectedSlots(d) ==
    (IF d.PaddingDigitsBefore > 0 THEN <<"digits", "separator">> ELSE << >>)
    \o WordSlots(d.NumWords)
    \o (IF d.PaddingDigitsAfter > 0 THEN <<"separator", "digits">> ELSE << >>)

(* C4. The separator is drawn at most once per invocation; the output has  *)
(* a separator after the leading digits, one between consecutive words     *)
(* (numWords - 1 of them, none after the last word) and one before the     *)
(* trailing digits, and every one of them is the value drawn.              *)
C4_OneSeparator ==
    /\ sepDraws <= 1
    /\ \A k \in 1..Len(builder) :
          IsSeparatorWrite(builder[k]) => builder[k].val = separator
    /\ Composed =>
          LET core == SelectSeq(builder, IsCoreWrite)
          IN  [k \in 1..Len(core) |-> core[k].kind] = ExpectedSlots(defaults)

C4_Witness ==
    /\ Composed
    /\ defaults.NumWords = MaxNumWords
    /\ defaults.PaddingDigitsBefore > 0
    /\ defaults.PaddingDigitsAfter > 0
    /\ defaults.SeparatorCharacter = SeparatorRandom
    /\ separator = S_under
    /\ Cardinality({k \in 1..Len(builder) : IsSeparatorWrite(builder[k])})
          = MaxNumWords + 1

\* The words written so far, each with the word accepted (raw) and the text
\* written for it (val).
WordsWritten == SelectSeq(builder, IsWordWrite)

(* C5, as stated. With Capitalise every character of every word is         *)
(* upper-cased.                                                            *)
C5_CapitaliseAllUpper ==
    defaults.CaseTransform = CaseCapitalise
    => \A k \in 1..Len(WordsWritten) :
          LET p == WordsWritten[k]
          IN  Chars(p.val) = [c \in 1..Len(Chars(p.raw)) |-> ToUpper(Chars(p.raw)[c])]

(* C5, amended. With Capitalise the first character of every word is       *)
(* upper-cased and every later character is lower-cased; number and order  *)
(* of the characters are kept.                                             *)
C5_CapitaliseFirstOnly ==
    defaults.CaseTransform = CaseCapitalise
    => \A k \in 1..Len(WordsWritten) :
          LET p == WordsWritten[k]
          IN  /\ Len(Chars(p.val)) = Len(Chars(p.raw))
              /\ \A c \in 1..Len(Chars(p.raw)) :
                    Chars(p.val)[c] = IF c = 1 THEN ToUpper(Chars(p.raw)[c])
                                      ELSE ToLower(Chars(p.raw)[c])

\* A word with an upper-case letter past its first character has been
\* written under Capitalise: "aBc" as "Abc".
C5_Witness ==
    /\ defaults.CaseTransform = CaseCapitalise
    /\ \E k \in 1..Len(WordsWritten) :
          WordsWritten[k].raw = S_aBc /\ WordsWritten[k].val = <<65, 98, 99>>

(* C6. With Alternate the character at each even 0-based character         *)
(* position is upper-cased and the one at each odd position lower-cased,   *)
(* positions counted in characters; number and order are kept.             *)
C6_AlternateByCharacter ==
    defaults.CaseTransform = CaseAlternate
    => \A k \in 1..Len(WordsWritten) :
          LET p == WordsWritten[k]
          IN  /\ Len(Chars(p.val)) = Len(Chars(p.raw))
              /\ \A c \in 1..Len(Chars(p.raw)) :
                    Chars(p.val)[c] = IF (c - 1) % 2 = 0
                                      THEN ToUpper(Chars(p.raw)[c])
                                      ELSE ToLower(Chars(p.raw)[c])

\* The dictionary has an entry whose length in characters is within the
\* bounds.
HasQualifyingWord ==
    \E k \in 1..Len(dictionary) :
        /\ jsonData.word_length_min <= Len(Chars(dictionary[k]))
        /\ Len(Chars(dictionary[k])) <= jsonData.word_length_max

(* C7. Every word accepted has a length in characters within              *)
(* [wordLengthMin, wordLengthMax], when the dictionary has a qualifying    *)
(* entry.                                                                  *)
C7_AcceptedWithinBounds ==
    HasQualifyingWord
    => \A k \in 1..Len(WordsWritten) :
          /\ defaults.WordLengthMin <= Len(Chars(WordsWritten[k].raw))
          /\ Len(Chars(WordsWritten[k].raw)) <= defaults.WordLengthMax

\* read_defaults has returned.
Parsed == pc # "read_defaults"

\* Neither an enum token (case-insensitively) nor a string of one character.
NotTokenNorCharacter(s, tokens) ==
    StringsToLower(s) \notin tokens /\ Len(Chars(s)) # 1

(* C8. read_defaults fails for every separator_character that is not       *)
(* none, random or one character, and for every padding_character that is  *)
(* not random, separator or one character; the empty string included.      *)
C8_RejectsNonCharacter ==
    (/\ Parsed
     /\ jsonData.valid
     /\ \/ NotTokenNorCharacter(jsonData.separator_character, {S_none, S_random})
        \/ NotTokenNorCharacter(jsonData.padding_character, {S_random, S_separator}))
    => err # ""

\* A literal: one character that is no enum token.
IsLiteral(s, tokens) == StringsToLower(s) \notin tokens /\ Len(Chars(s)) = 1

(* C9. After a successful parse: a literal separator_character c gives     *)
(* mode FixedCharacter and the alphabet <<c>>, c as supplied; an enum      *)
(* token keeps the supplied separator_alphabet.  Likewise for              *)
(* padding_character, mode Specified and symbol_alphabet.                  *)
C9_LiteralAsSupplied ==
    (Parsed /\ err = "")
    => /\ IsLiteral(jsonData.separator_character, {S_none, S_random})
            => /\ defaults.SeparatorCharacter = SeparatorCharacter
               /\ defaults.SeparatorAlphabet = <<jsonData.separator_character>>
       /\ StringsToLower(jsonData.separator_character) \in {S_none, S_random}
            => defaults.SeparatorAlphabet = jsonData.separator_alphabet
       /\ IsLiteral(jsonData.padding_character, {S_random, S_separator})
            => /\ defaults.PaddingCharacter = PaddingSpecified
               /\ defaults.SymbolAlphabet = <<jsonData.padding_character>>
       /\ StringsToLower(jsonData.padding_character) \in {S_random, S_separator}
            => defaults.SymbolAlphabet = jsonData.symbol_alphabet

\* case_transform or padding_type, lower-cased, is no recognised token.
UnrecognisedEnum ==
    \/ StringsToLower(jsonData.case_transform)
          \notin {S_none, S_alternate, S_capitalise, S_invert, S_upper, S_lower,
                  S_random}
    \/ StringsToLower(jsonData.padding_type) \notin {S_none, S_fixed, S_adaptive}

(* C10. If case_transform or padding_type is not recognised, read_defaults *)
(* returns an error and the zero configuration, and the program enters no  *)
(* generation step and prints no password, whatever the requested count;   *)
(* a password is printed only after a parse without error.                 *)
C10_NoOutputAfterParseError ==
    /\ (jsonData.valid /\ UnrecognisedEnum)
       => /\ pc \in {"read_defaults", "fatal"}
          /\ stdout = << >>
          /\ Parsed => (err # "" /\ defaults = ZeroDefaults)
    /\ stdout # << >> => (Parsed /\ err = "")

C10_Witness ==
    /\ pc = "fatal"
    /\ jsonData.valid
    /\ jsonData.padding_type = S_bogus
    /\ jsonData.case_transform = S_UPPER
    /\ num_passwords = MaxNumPasswords
    /\ err = "Unknown PaddingType"

\* The invariants of the data model, for the configuration read_defaults
\* accepted: ordered length bounds, a qualifying dictionary entry, and a
\* non-empty alphabet for every mode that uses one.
DataModelInvariants ==
    /\ Parsed
    /\ err = ""
    /\ defaults.WordLengthMin <= defaults.WordLengthMax
    /\ HasQualifyingWord
    /\ defaults.SeparatorCharacter # SeparatorNone
          => defaults.SeparatorAlphabet # << >>
    /\ DrawsPadding(defaults) => defaults.SymbolAlphabet # << >>

(* C11. For every accepted configuration that satisfies the data-model     *)
(* invariants generate_output runs without a runtime fault; separator mode *)
(* None with an empty separator alphabet included.                         *)
C11_NoRuntimeFault ==
    DataModelInvariants => pc # "panic"

-----------------------------------------------------------------------------
(* The rejection-sampling loop under fair draws.                           *)

\* Dictionaries with and without an entry within the bounds, one of them
\* empty, and bounds that no length satisfies.
LoopInputs ==
    { Json(S_none, S_dash, << >>, S_none, S_random, << >>, nw, b[1], b[2], 0, 0, 0, 0, 0) :
        nw \in 1..MaxNumWords,
        b \in {<<2, 3>>, <<3, 3>>, <<3, 2>>} }

LoopDictionaries ==
    { <<S_ab, S_cde, S_f>>, <<S_f>>, <<S_eacute_a, S_f>>, <<S_eacute_ab, S_ab>>,
      << >> }

InitLoop == InitWith(LoopInputs, LoopDictionaries, {1})

\* A draw of random_inner_word that ends the loop of random_word.
AcceptingDraw == RandomInnerWord /\ pc' = "gen_case"

\* The process keeps running, and the draws are fair: a word that can be
\* drawn again and again is drawn at some time (rand.Int is uniform over the
\* dictionary, so with probability 1 every entry comes up).
SpecLoop ==
    InitLoop /\ [][Next]_vars /\ WF_vars(Next) /\ SF_vars(AcceptingDraw)

\* random_word is in its loop: a word is to be drawn.
InLoop == pc = "gen_words" /\ wi < defaults.NumWords

\* The dictionary has an entry whose length, as len(word) gives it, is
\* within [WordLengthMin, WordLengthMax].
HasAcceptableWord ==
    \E k \in 1..Len(defaults.WordDictionary) :
        /\ defaults.WordLengthMin <= Len(defaults.WordDictionary[k])
        /\ Len(defaults.WordDictionary[k]) <= defaults.WordLengthMax

-----------------------------------------------------------------------------
(* The digit groups, for widths up to and beyond the range of int64.       *)

\* How far past MaxExactPow10 the widths of the model go.
MaxOverflowDigits == 2

DigitWidths ==
    (1..MaxPaddingDigits) \cup (MaxExactPow10..(MaxExactPow10 + MaxOverflowDigits))

DigitInputs ==
    { Json(S_none, S_dash, << >>, S_none, S_random, << >>, nw, 2, 3, db, da, 0, 0, 0) :
        nw \in 0..1,
        db \in {0} \cup DigitWidths,
        da \in {0} \cup DigitWidths }

InitDigits == InitWith(DigitInputs, {<<S_ab, S_cde, S_f>>}, {1})

SpecDigits == InitDigits /\ [][Next]_vars

IsDigitsWrite(p) == p.kind = "digits"

\* The digit groups written so far.
DigitGroups == SelectSeq(builder, IsDigitsWrite)

\* A string of exactly w characters, each a decimal digit.
IsDigitGroup(val, w) == Len(val) = w /\ \A k \in 1..Len(val) : val[k] \in 48..57

(* C13. For every paddingDigitsBefore = n > 0 (and paddingDigitsAfter =    *)
(* n > 0) generate_output emits a digit group of exactly n decimal digits, *)
(* also for n so large that 10^n is beyond a signed 64-bit integer.        *)
C13_DigitGroupsOfWidth ==
    (DataModelInvariants /\ defaults.SeparatorAlphabet # << >>)
    => /\ pc # "panic"
       /\ (pc \in {"gen_words", "gen_case", "gen_print"}
              /\ defaults.PaddingDigitsBefore > 0)
          => /\ Len(DigitGroups) >= 1
             /\ IsDigitGroup(DigitGroups[1].val, defaults.PaddingDigitsBefore)
       /\ (Composed /\ defaults.PaddingDigitsAfter > 0)
          => /\ Len(DigitGroups) =
                   (IF defaults.PaddingDigitsBefore > 0 THEN 2 ELSE 1)
             /\ IsDigitGroup(DigitGroups[Len(DigitGroups)].val,
                             defaults.PaddingDigitsAfter)

====
